---- MODULE Spec2Model ----
(***************************************************************************)
(* A model of ktel: the consumer poll loop (consumer.Consumer.Run), the    *)
(* application lifecycle (ktel.app.Start) and the readiness tracker        *)
(* (health.Checker) with the rebalance callbacks of kgo.BuildKgoOptions.   *)
(*                                                                         *)
(* Spec           the application lifecycle together with the poll loop    *)
(* SpecRebalance  the rebalance callbacks, SetReady and a concurrent       *)
(*                IsReady                                                  *)
(* SpecHealth     the readiness probes with concurrent SetReady and        *)
(*                AddReadinessCheck calls, all under Checker.mu            *)
(***************************************************************************)
EXTENDS Integers, FiniteSets, Sequences, TLC

\* ------------------------------------------------------------------ bounds

\* Largest number of records one poll returns.
MaxRecs == 2

\* Largest number of fetch-level errors one poll returns.
MaxErrs == 1

\* Number of cleanup callbacks handed to Start.
NumCleanup == 2

\* Saturation value of the history counters.
MaxCount == 2

\* Number of names a readiness check can be registered under.
NumNames == 2

\* Number of handler threads serving ReadinessProbe requests concurrently.
NumProbes == 1

\* Number of partitions of the consumed topic.
MaxPartitions == 2
NumCalls == 2

Records == 1..MaxRecs

Min(a, b) == IF a < b THEN a ELSE b

\* ------------------------------------------------------------------- state

VARIABLES
    \* ---- ktel.app.Start
    appPc,            \* position of Start
    cancelled,        \* the NotifyContext context is done
    appWg,            \* counter of Start's sync.WaitGroup
    srvGo,            \* the goroutine running server.ListenAndServe
    shutdownCalled,   \* server.Shutdown has been called
    closeCalls,       \* number of calls of KafkaClient.Close
    cleanupIdx,       \* number of cleanup callbacks that have run
    cleanupLog,       \* the cleanup callbacks that were called, in call order
    shutdownRes,      \* outcome of server.Shutdown and of the providers' Shutdown
    \* ---- consumer.Consumer.Run
    runPc,            \* position of Run
    fetches,          \* the result of the last PollFetches
    nextRec,          \* next record EachRecord hands to the callback
    batchWg,          \* counter of the per-batch sync.WaitGroup
    tasks,            \* per record: the goroutine of the current batch
    invoked,          \* per record: ProcessRecord invocations in this iteration
    pollsAfterCancel, \* history: PollFetches calls begun with the context done
    \* ---- health.Checker
    ready,            \* Checker.ready
    readinessChecks,  \* Checker.readinessChecks: name -> check function
    rwReaders,        \* Checker.mu: the threads holding the read lock
    rwWriter,         \* Checker.mu: the thread holding the write lock
    rwWaiting,        \* Checker.mu: the threads blocked in Lock()
    probes,           \* per handler thread: the ReadinessProbe request it serves
    regPc,            \* the thread calling AddReadinessCheck: its position
    regArg,           \* ... and the (name, check) it registers
    irPc,             \* the thread calling IsReady: its position
    irResult,         \* ... the value IsReady returned
    irSeen,           \* history: the last completed rebalance event when IsReady read
    lastReg,          \* history: per name, the check of the latest AddReadinessCheck
    \* ---- the rebalance callbacks of kgo.BuildKgoOptions
    cbPc,             \* the client's callback goroutine: its position in SetReady
    cbArg,            \* the argument of the SetReady call in progress
    cbEvent,          \* the rebalance event whose callback is running
    lastEvent,        \* history: the last rebalance event whose callback returned
    lastSet,          \* history: the argument of the latest SetReady to take the lock
    owned,            \* the partitions the group member currently owns
    \* ---- processor.InstrumentingProcessor
    ipCalls,          \* per ProcessRecord call: its position, results and recordings
    \* ---- health.Checker.LivenessProbe
    live              \* the handler thread of /live: the request it serves

loopVars == <<runPc, fetches, nextRec, batchWg, tasks, invoked, pollsAfterCancel>>
appVars == <<appPc, cancelled, appWg, srvGo, shutdownCalled, closeCalls, cleanupIdx, cleanupLog,
            shutdownRes>>
checkerVars == <<ready, readinessChecks, rwReaders, rwWriter, rwWaiting>>
probeVars == <<probes, regPc, regArg, irPc, irResult, irSeen, lastReg>>
rebalanceVars == <<cbPc, cbArg, cbEvent, lastEvent, owned, lastSet>>
healthVars == <<checkerVars, probeVars, rebalanceVars>>
procVars == <<ipCalls>>
liveVars == <<live>>
vars == <<appVars, loopVars, healthVars, procVars, liveVars>>

NoTask == [st |-> "none", res |-> "none"]

NoShutdown == [http |-> "none", tracer |-> "none", meter |-> "none"]

\* the process has not exited through a.Logger.Fatalf
Alive == srvGo # "fatal"

\* ------------------------------------------------------ consumer.Consumer.Run

\* (mutant) the loop never looks at the context
CtxErrIgnored == FALSE

\* ctx.Err() != nil
CtxErr == cancelled

\* (mutant) the error branch is taken for every batch
HasFetchErrorsAlways(f) == f.errs >= 0

\* (mutant) the error branch is never taken
HasFetchErrorsNever(f) == f.errs < 0

\* len(fetches.Errors()) > 0
HasFetchErrors(f) == f.errs > 0

\* (mutant) the error branch returns from Run
FetchErrorStepReturn == "stopped"

\* where the error branch goes: `continue`, the next iteration
FetchErrorStep == "check"

\* (mutant) the loop does not wait for the batch
BatchJoinedNoWait == TRUE

\* wg.Wait() of the per-batch wait group returns
BatchJoined == batchWg = 0

\* for { if ctx.Err() != nil { return } ...
LoopCheck ==
    /\ Alive
    /\ runPc = "check"
    /\ runPc' = IF CtxErr THEN "stopped" ELSE "poll"
    /\ UNCHANGED <<fetches, nextRec, batchWg, tasks, invoked, pollsAfterCancel>>
    /\ UNCHANGED appVars
    /\ UNCHANGED <<healthVars, procVars, liveVars>>

\* the call c.client.PollFetches(ctx) begins
PollBegin ==
    /\ Alive
    /\ runPc = "poll"
    /\ runPc' = "inPoll"
    /\ pollsAfterCancel' =
         IF cancelled THEN Min(pollsAfterCancel + 1, MaxCount) ELSE pollsAfterCancel
    /\ UNCHANGED <<fetches, nextRec, batchWg, tasks, invoked>>
    /\ UNCHANGED appVars
    /\ UNCHANGED <<healthVars, procVars, liveVars>>

\* PollFetches returns a batch: e fetch-level errors and n records; the
\* iteration's wait group and goroutines are fresh.
PollReturn(e, n) ==
    /\ Alive
    /\ runPc = "inPoll"
    /\ runPc' = "handle"
    /\ fetches' = [errs |-> e, recs |-> n]
    /\ nextRec' = 1
    /\ batchWg' = 0
    /\ tasks' = [r \in Records |-> NoTask]
    /\ invoked' = [r \in Records |-> 0]
    /\ UNCHANGED pollsAfterCancel
    /\ UNCHANGED appVars
    /\ UNCHANGED <<healthVars, procVars, liveVars>>

\* if errs := fetches.Errors(); len(errs) > 0 { log each; continue }
HandleFetches ==
    /\ Alive
    /\ runPc = "handle"
    /\ runPc' = IF HasFetchErrors(fetches) THEN FetchErrorStep ELSE "dispatch"
    /\ UNCHANGED <<fetches, nextRec, batchWg, tasks, invoked, pollsAfterCancel>>
    /\ UNCHANGED appVars
    /\ UNCHANGED <<healthVars, procVars, liveVars>>

\* EachRecord's callback for one record: wg.Add(1); go func(rec) {...}(record)
Spawn ==
    /\ Alive
    /\ runPc = "dispatch"
    /\ nextRec <= fetches.recs
    /\ batchWg' = batchWg + 1
    /\ tasks' = [tasks EXCEPT ![nextRec] = [st |-> "spawned", res |-> "none"]]
    /\ nextRec' = nextRec + 1
    /\ UNCHANGED <<runPc, fetches, invoked, pollsAfterCancel>>
    /\ UNCHANGED appVars
    /\ UNCHANGED <<healthVars, procVars, liveVars>>

\* EachRecord returns; the loop reaches wg.Wait()
DispatchDone ==
    /\ Alive
    /\ runPc = "dispatch"
    /\ nextRec > fetches.recs
    /\ runPc' = "wait"
    /\ UNCHANGED <<fetches, nextRec, batchWg, tasks, invoked, pollsAfterCancel>>
    /\ UNCHANGED appVars
    /\ UNCHANGED <<healthVars, procVars, liveVars>>

\* wg.Wait() returns and the loop starts its next iteration
BatchWait ==
    /\ Alive
    /\ runPc = "wait"
    /\ BatchJoined
    /\ runPc' = "check"
    /\ UNCHANGED <<fetches, nextRec, batchWg, tasks, invoked, pollsAfterCancel>>
    /\ UNCHANGED appVars
    /\ UNCHANGED <<healthVars, procVars, liveVars>>

\* (mutant) a record waits for the records dispatched before it
MayProcessInOrder(r) == \A q \in 1..(r - 1) : tasks[q].st \in {"none", "done"}

\* the goroutine of a record waits for no other record: nothing between
\* `go func` and the call of ProcessRecord looks at partition or offset
MayProcess(r) == TRUE

\* the goroutine of record r calls c.processor.ProcessRecord(rec.Context, rec)
TaskStart(r) ==
    /\ Alive
    /\ tasks[r].st = "spawned"
    /\ MayProcess(r)
    /\ tasks' = [tasks EXCEPT ![r].st = "running"]
    /\ invoked' = [invoked EXCEPT ![r] = Min(invoked[r] + 1, MaxCount)]
    /\ UNCHANGED <<runPc, fetches, nextRec, batchWg, pollsAfterCancel>>
    /\ UNCHANGED appVars
    /\ UNCHANGED <<healthVars, procVars, liveVars>>

\* (mutant) the Processor is handed the loop's context
TaskCtxLoop == "loop"

\* the context ProcessRecord is called with: rec.Context, not Run's ctx
TaskCtx == "record"

\* the context the Processor was handed is done
TaskCtxDone == TaskCtx = "loop" /\ cancelled

\* ProcessRecord returns nil or an error; "cancelled" is a Processor that gave
\* up its work because the context it was handed is done
TaskReturn(r, res) ==
    /\ Alive
    /\ tasks[r].st = "running"
    /\ res = "cancelled" => TaskCtxDone
    /\ tasks' = [tasks EXCEPT ![r] = [st |-> "returned", res |-> res]]
    /\ UNCHANGED <<runPc, fetches, nextRec, batchWg, invoked, pollsAfterCancel>>
    /\ UNCHANGED appVars
    /\ UNCHANGED <<healthVars, procVars, liveVars>>

\* (mutant) a record whose Processor failed is handed to the Processor again
TaskErrorStepRetry == "spawned"

\* where the goroutine goes after ProcessRecord returned an error: the error is
\* logged and the goroutine ends
TaskErrorStep == "done"

\* the error, if any, is logged and the deferred wg.Done() runs
TaskDone(r) ==
    /\ Alive
    /\ tasks[r].st = "returned"
    /\ LET st == IF tasks[r].res = "nil" THEN "done" ELSE TaskErrorStep
       IN  /\ tasks' = [tasks EXCEPT ![r].st = st]
           /\ batchWg' = IF st = "done" THEN batchWg - 1 ELSE batchWg
    /\ UNCHANGED <<runPc, fetches, nextRec, invoked, pollsAfterCancel>>
    /\ UNCHANGED appVars
    /\ UNCHANGED <<healthVars, procVars, liveVars>>

\* Run has returned: the deferred wg.Done() of startConsumer's goroutine
LoopExit ==
    /\ Alive
    /\ runPc = "stopped"
    /\ runPc' = "exited"
    /\ appWg' = appWg - 1
    /\ UNCHANGED <<fetches, nextRec, batchWg, tasks, invoked, pollsAfterCancel>>
    /\ UNCHANGED <<appPc, cancelled, srvGo, shutdownCalled, closeCalls, cleanupIdx, cleanupLog, shutdownRes>>
    /\ UNCHANGED <<healthVars, procVars, liveVars>>

\* ---------------------------------------------------------- ktel.app.Start

\* SIGINT or SIGTERM arrives: the NotifyContext context is cancelled
Signal ==
    /\ Alive
    /\ appPc # "init"
    /\ ~cancelled
    /\ cancelled' = TRUE
    /\ UNCHANGED <<appPc, appWg, srvGo, shutdownCalled, closeCalls, cleanupIdx, cleanupLog, shutdownRes>>
    /\ UNCHANGED loopVars
    /\ UNCHANGED <<healthVars, procVars, liveVars>>

\* signal.NotifyContext; startHealthCheckServer: wg.Add(1); go ListenAndServe
StartHealthCheckServer ==
    /\ Alive
    /\ appPc = "init"
    /\ appPc' = "startConsumer"
    /\ appWg' = appWg + 1
    /\ srvGo' = "spawned"
    /\ UNCHANGED <<cancelled, shutdownCalled, closeCalls, cleanupIdx, cleanupLog, shutdownRes>>
    /\ UNCHANGED loopVars
    /\ UNCHANGED <<healthVars, procVars, liveVars>>

\* startConsumer: telemetry.NewInstrumentor succeeds (ok) or fails; on success
\* wg.Add(1); go appConsumer.Run(ctx)
StartConsumer(ok) ==
    /\ Alive
    /\ appPc = "startConsumer"
    /\ IF ok
         THEN /\ appPc' = "waitSignal"
              /\ appWg' = appWg + 1
              /\ runPc' = "check"
              /\ UNCHANGED cancelled
         ELSE /\ appPc' = "failed"
              /\ cancelled' = TRUE
              /\ UNCHANGED <<appWg, runPc>>
    /\ UNCHANGED <<srvGo, shutdownCalled, closeCalls, cleanupIdx, cleanupLog, shutdownRes>>
    /\ UNCHANGED <<fetches, nextRec, batchWg, tasks, invoked, pollsAfterCancel>>
    /\ UNCHANGED <<healthVars, procVars, liveVars>>

\* (mutant) a failed shutdown step makes Start return the error
ShutdownErrorStepAbort(res, next) == IF res = "err" THEN "failed" ELSE next

\* where Start goes after a shutdown step that ended with res: the error is
\* logged (Warnw, Errorf) and Start goes on to the next step
ShutdownErrorStep(res, next) == next

\* <-ctx.Done(); then shutdownHTTPServer: server.Shutdown(shutdownCtx) returns
\* nil (res = "ok") or an error such as the 5 s timeout (res = "err")
ShutdownHTTPServer(res) ==
    /\ Alive
    /\ appPc = "waitSignal"
    /\ cancelled
    /\ appPc' = ShutdownErrorStep(res, "shutdownOtel")
    /\ shutdownCalled' = TRUE
    /\ shutdownRes' = [shutdownRes EXCEPT !.http = res]
    /\ UNCHANGED <<cancelled, appWg, srvGo, closeCalls, cleanupIdx, cleanupLog>>
    /\ UNCHANGED loopVars
    /\ UNCHANGED <<healthVars, procVars, liveVars>>

\* shutdownOtelProviders: tracerProvider.Shutdown returns tres, then
\* meterProvider.Shutdown returns mres; "nil" is a provider that is nil (New
\* sets both or neither), whose Shutdown is skipped
ShutdownOtelProviders(tres, mres) ==
    /\ Alive
    /\ appPc = "shutdownOtel"
    /\ (tres = "nil") <=> (mres = "nil")
    /\ appPc' = ShutdownErrorStep(tres, ShutdownErrorStep(mres, "closeClient"))
    /\ shutdownRes' = [shutdownRes EXCEPT !.tracer = tres, !.meter = mres]
    /\ UNCHANGED <<cancelled, appWg, srvGo, shutdownCalled, closeCalls, cleanupIdx, cleanupLog>>
    /\ UNCHANGED loopVars
    /\ UNCHANGED <<healthVars, procVars, liveVars>>

\* a.KafkaClient.Close()
CloseClient ==
    /\ Alive
    /\ appPc = "closeClient"
    /\ appPc' = "cleanup"
    /\ closeCalls' = Min(closeCalls + 1, MaxCount)
    /\ UNCHANGED <<cancelled, appWg, srvGo, shutdownCalled, cleanupIdx, cleanupLog, shutdownRes>>
    /\ UNCHANGED loopVars
    /\ UNCHANGED <<healthVars, procVars, liveVars>>

\* the callbacks Start was given, in the order of its variadic argument
CleanupFns == [i \in 1..NumCleanup |-> i]

\* (mutant) the callbacks are taken from the end of the slice
RangeAtReversed(fns, i) == fns[Len(fns) - i]

\* the element that `range` yields in iteration i of a slice (counted from 0)
RangeAt(fns, i) == fns[i + 1]

\* for _, fn := range cleanupFns { fn() }
Cleanup ==
    /\ Alive
    /\ appPc = "cleanup"
    /\ IF cleanupIdx < Len(CleanupFns)
         THEN /\ cleanupIdx' = cleanupIdx + 1
              /\ cleanupLog' = Append(cleanupLog, RangeAt(CleanupFns, cleanupIdx))
              /\ UNCHANGED appPc
         ELSE appPc' = "wgWait" /\ UNCHANGED <<cleanupIdx, cleanupLog>>
    /\ UNCHANGED <<cancelled, appWg, srvGo, shutdownCalled, closeCalls, shutdownRes>>
    /\ UNCHANGED loopVars
    /\ UNCHANGED <<healthVars, procVars, liveVars>>

\* (mutant) Start does not wait for its goroutines
GoroutinesJoinedNoWait == TRUE

\* wg.Wait() of Start's wait group returns
GoroutinesJoined == appWg = 0

\* wg.Wait() returns; return nil
WaitGoroutines ==
    /\ Alive
    /\ appPc = "wgWait"
    /\ GoroutinesJoined
    /\ appPc' = "returned"
    /\ UNCHANGED <<cancelled, appWg, srvGo, shutdownCalled, closeCalls, cleanupIdx, cleanupLog, shutdownRes>>
    /\ UNCHANGED loopVars
    /\ UNCHANGED <<healthVars, procVars, liveVars>>

\* the server goroutine enters server.ListenAndServe()
SrvListen ==
    /\ Alive
    /\ srvGo = "spawned"
    /\ ~shutdownCalled
    /\ srvGo' = "serving"
    /\ UNCHANGED <<appPc, cancelled, appWg, shutdownCalled, closeCalls, cleanupIdx, cleanupLog, shutdownRes>>
    /\ UNCHANGED loopVars
    /\ UNCHANGED <<healthVars, procVars, liveVars>>

\* ListenAndServe returns an error other than http.ErrServerClosed (the port is
\* taken, Accept fails): a.Logger.Fatalf ends the process
SrvFail ==
    /\ Alive
    /\ srvGo \in {"spawned", "serving"}
    /\ ~shutdownCalled
    /\ srvGo' = "fatal"
    /\ UNCHANGED <<appPc, cancelled, appWg, shutdownCalled, closeCalls, cleanupIdx, cleanupLog, shutdownRes>>
    /\ UNCHANGED loopVars
    /\ UNCHANGED <<healthVars, procVars, liveVars>>

\* ListenAndServe returns http.ErrServerClosed; the deferred wg.Done() runs
SrvExit ==
    /\ Alive
    /\ srvGo \in {"spawned", "serving"}
    /\ shutdownCalled
    /\ srvGo' = "exited"
    /\ appWg' = appWg - 1
    /\ UNCHANGED <<appPc, cancelled, shutdownCalled, closeCalls, cleanupIdx, cleanupLog, shutdownRes>>
    /\ UNCHANGED loopVars
    /\ UNCHANGED <<healthVars, procVars, liveVars>>

\* ------------------------------------------------------------ health.Checker

CheckNames == 1..NumNames
Fns == {"f", "g"}
\* check functions that call back into the Checker they are registered with:
\* r calls c.IsReady(), w calls c.SetReady(true), a calls
\* c.AddReadinessCheck with its own name and the check f; then each returns nil
ReFns == {"r", "w", "a"}
Partitions == 0..(MaxPartitions - 1)
Probes == 1..NumProbes

\* the threads that use Checker.mu
CbThread == <<"callback", 0>>
RegThread == <<"register", 0>>
IrThread == <<"isready", 0>>
ProbeThread(p) == <<"probe", p>>
\* the handler thread p while it is inside a lock call made by a check function
CheckThread(p) == <<"check", p>>
NoThread == <<"none", 0>>

NoEvent == [kind |-> "none", parts |-> {}]
\* the arguments of AddReadinessCheck while no call is running
NoArg == [name |-> 0, check |-> "none"]
NotReadyBody == "consumer not ready (no partitions assigned)"
IdleProbe ==
    [pc |-> "idle", readyAtLock |-> FALSE, namesAtLock |-> {},
     calls |-> [n \in CheckNames |-> "none"], cur |-> 0, code |-> 0, body |-> "", check |-> 0]

\* the names with a registered check
Registered == {n \in CheckNames : readinessChecks[n] # "none"}

\* (mutant) the read lock is never given back
RUnlockForgotten(readers, t) == readers

\* sync.RWMutex: RUnlock() by thread t
RUnlock(readers, t) == readers \ {t}

\* sync.RWMutex: RLock() returns when no writer holds the lock and none waits
CanRLock == rwWriter = NoThread /\ rwWaiting = {}

\* (mutant) Lock() does not wait for the readers
CanLockDespiteReaders == rwWriter = NoThread

\* sync.RWMutex: Lock() returns when nobody holds the lock
CanLock == rwWriter = NoThread /\ rwReaders = {}

\* (mutant) the handler for lost partitions reports ready
CallbackReadyLostReady(kind) == kind # "revoke"

\* the argument each rebalance callback passes to SetReady:
\* OnPartitionsAssigned true, OnPartitionsRevoked false, OnPartitionsLost false
CallbackReady(kind) == kind = "assign"

\* (mutant) a name that is registered keeps its first check
StoreCheckKeepFirst(m, name, check) ==
    IF m[name] = "none" THEN [m EXCEPT ![name] = check] ELSE m

\* c.readinessChecks[name] = check
StoreCheck(m, name, check) == [m EXCEPT ![name] = check]

\* what check() returns: the check f always succeeds, the check g always fails
CheckResult(check) == IF check = "f" THEN "nil" ELSE "err"

\* (mutant) every check counts as failed
CheckFailedAlways(res) == TRUE

\* (mutant) the error of a check is dropped
CheckFailedNever(res) == FALSE

\* if err := check(); err != nil
CheckFailed(res) == res = "err"

\* a rebalance callback is invoked with the map parts: it logs and calls
\* checker.SetReady, which blocks in c.mu.Lock()
Rebalance(kind, parts) ==
    /\ cbPc = "idle"
    /\ kind = "assign" \/ parts \subseteq owned
    /\ cbPc' = "lock"
    /\ cbArg' = CallbackReady(kind)
    /\ cbEvent' = [kind |-> kind, parts |-> parts]
    /\ owned' = IF kind = "assign" THEN owned \cup parts ELSE owned \ parts
    /\ rwWaiting' = rwWaiting \cup {CbThread}
    /\ UNCHANGED <<ready, readinessChecks, rwReaders, rwWriter, lastEvent, lastSet>>
    /\ UNCHANGED <<probeVars, appVars, loopVars, procVars, liveVars>>

\* SetReady(v) is called by a rebalance callback; it blocks in c.mu.Lock()
SetReadyCall(v) ==
    /\ cbPc = "idle"
    /\ cbPc' = "lock"
    /\ cbArg' = v
    /\ rwWaiting' = rwWaiting \cup {CbThread}
    /\ UNCHANGED <<ready, readinessChecks, rwReaders, rwWriter>>
    /\ UNCHANGED <<cbEvent, lastEvent, owned, lastSet>>
    /\ UNCHANGED <<probeVars, appVars, loopVars, procVars, liveVars>>

\* SetReady: c.mu.Lock() returns
SetReadyLock ==
    /\ cbPc = "lock"
    /\ CanLock
    /\ cbPc' = "locked"
    /\ rwWriter' = CbThread
    /\ rwWaiting' = rwWaiting \ {CbThread}
    /\ lastSet' = cbArg
    /\ UNCHANGED <<ready, readinessChecks, rwReaders>>
    /\ UNCHANGED <<cbArg, cbEvent, lastEvent, owned>>
    /\ UNCHANGED <<probeVars, appVars, loopVars, procVars, liveVars>>

\* SetReady: c.ready = ready; the deferred c.mu.Unlock(); the callback returns
SetReadyWrite ==
    /\ cbPc = "locked"
    /\ ready' = cbArg
    /\ rwWriter' = NoThread
    /\ cbPc' = "idle"
    /\ lastEvent' = IF cbEvent = NoEvent THEN lastEvent ELSE cbEvent
    /\ cbEvent' = NoEvent
    /\ cbArg' = FALSE
    /\ UNCHANGED <<readinessChecks, rwReaders, rwWaiting, owned, lastSet>>
    /\ UNCHANGED <<probeVars, appVars, loopVars, procVars, liveVars>>

\* AddReadinessCheck(name, check) is called; it blocks in c.mu.Lock()
AddReadinessCheckCall(name, check) ==
    /\ regPc = "idle"
    /\ regPc' = "lock"
    /\ regArg' = [name |-> name, check |-> check]
    /\ rwWaiting' = rwWaiting \cup {RegThread}
    /\ UNCHANGED <<ready, readinessChecks, rwReaders, rwWriter>>
    /\ UNCHANGED <<probes, irPc, irResult, irSeen, lastReg>>
    /\ UNCHANGED <<rebalanceVars, appVars, loopVars, procVars, liveVars>>

\* AddReadinessCheck: c.mu.Lock() returns
AddReadinessCheckLock ==
    /\ regPc = "lock"
    /\ CanLock
    /\ regPc' = "locked"
    /\ rwWriter' = RegThread
    /\ rwWaiting' = rwWaiting \ {RegThread}
    /\ UNCHANGED <<ready, readinessChecks, rwReaders>>
    /\ UNCHANGED <<probes, regArg, lastReg, irPc, irResult, irSeen>>
    /\ UNCHANGED <<rebalanceVars, appVars, loopVars, procVars, liveVars>>

\* AddReadinessCheck: c.readinessChecks[name] = check; the deferred c.mu.Unlock()
AddReadinessCheckWrite ==
    /\ regPc = "locked"
    /\ readinessChecks' = StoreCheck(readinessChecks, regArg.name, regArg.check)
    /\ lastReg' = [lastReg EXCEPT ![regArg.name] = regArg.check]
    /\ rwWriter' = NoThread
    /\ regPc' = "idle"
    /\ regArg' = NoArg
    /\ UNCHANGED <<ready, rwReaders, rwWaiting>>
    /\ UNCHANGED <<probes, irPc, irResult, irSeen>>
    /\ UNCHANGED <<rebalanceVars, appVars, loopVars, procVars, liveVars>>

\* IsReady: c.mu.RLock() returns
IsReadyRLock ==
    /\ irPc \in {"idle", "done"}
    /\ CanRLock
    /\ irPc' = "rlocked"
    /\ rwReaders' = rwReaders \cup {IrThread}
    /\ UNCHANGED <<ready, readinessChecks, rwWriter, rwWaiting>>
    /\ UNCHANGED <<probes, regPc, regArg, lastReg, irResult, irSeen>>
    /\ UNCHANGED <<rebalanceVars, appVars, loopVars, procVars, liveVars>>

\* IsReady: return c.ready; the deferred c.mu.RUnlock()
IsReadyReturn ==
    /\ irPc = "rlocked"
    /\ irPc' = "done"
    /\ irResult' = ready
    /\ irSeen' = lastEvent
    /\ rwReaders' = RUnlock(rwReaders, IrThread)
    /\ UNCHANGED <<ready, readinessChecks, rwWriter, rwWaiting>>
    /\ UNCHANGED <<probes, regPc, regArg, lastReg>>
    /\ UNCHANGED <<rebalanceVars, appVars, loopVars, procVars, liveVars>>

\* ReadinessProbe: a request arrives at handler thread p; c.mu.RLock() returns
ProbeRLock(p) ==
    /\ probes[p].pc \in {"idle", "done"}
    /\ CanRLock
    /\ probes' = [probes EXCEPT ![p] =
                    [IdleProbe EXCEPT !.pc = "rlocked", !.readyAtLock = ready,
                                      !.namesAtLock = Registered]]
    /\ rwReaders' = rwReaders \cup {ProbeThread(p)}
    /\ UNCHANGED <<ready, readinessChecks, rwWriter, rwWaiting>>
    /\ UNCHANGED <<regPc, regArg, lastReg, irPc, irResult, irSeen>>
    /\ UNCHANGED <<rebalanceVars, appVars, loopVars, procVars, liveVars>>

\* ReadinessProbe: if !c.ready { http.Error(w, ..., 503); return }
ProbeReadyFlag(p) ==
    /\ probes[p].pc = "rlocked"
    /\ IF ~ready
         THEN /\ probes' = [probes EXCEPT ![p].pc = "done", ![p].code = 503,
                                          ![p].body = NotReadyBody]
              /\ rwReaders' = RUnlock(rwReaders, ProbeThread(p))
         ELSE /\ probes' = [probes EXCEPT ![p].pc = "checks"]
              /\ UNCHANGED rwReaders
    /\ UNCHANGED <<ready, readinessChecks, rwWriter, rwWaiting>>
    /\ UNCHANGED <<regPc, regArg, lastReg, irPc, irResult, irSeen>>
    /\ UNCHANGED <<rebalanceVars, appVars, loopVars, procVars, liveVars>>

\* ReadinessProbe: one iteration of `for name, check := range c.readinessChecks`,
\* in the map's arbitrary order: check() returns res; an error ends the request
\* with 503 and the check's name
ProbeCheck(p, name, res) ==
    /\ probes[p].pc = "checks"
    /\ name \in Registered
    /\ probes[p].calls[name] = "none"
    /\ readinessChecks[name] \in Fns
    /\ res = CheckResult(readinessChecks[name])
    /\ IF CheckFailed(res)
         THEN /\ probes' = [probes EXCEPT ![p].pc = "done", ![p].calls[name] = res,
                                          ![p].code = 503, ![p].body = "is not ready",
                                          ![p].check = name]
              /\ rwReaders' = RUnlock(rwReaders, ProbeThread(p))
         ELSE /\ probes' = [probes EXCEPT ![p].calls[name] = res]
              /\ UNCHANGED rwReaders
    /\ UNCHANGED <<ready, readinessChecks, rwWriter, rwWaiting>>
    /\ UNCHANGED <<regPc, regArg, lastReg, irPc, irResult, irSeen>>
    /\ UNCHANGED <<rebalanceVars, appVars, loopVars, procVars, liveVars>>

\* ReadinessProbe: an iteration of the range loop calls a check of ReFns,
\* which calls a method of the Checker: IsReady blocks in c.mu.RLock(),
\* SetReady and AddReadinessCheck block in c.mu.Lock()
ProbeCheckCall(p, name) ==
    /\ probes[p].pc = "checks"
    /\ name \in Registered
    /\ probes[p].calls[name] = "none"
    /\ readinessChecks[name] \in ReFns
    /\ probes' = [probes EXCEPT ![p].pc = "inCheck", ![p].cur = name]
    /\ rwWaiting' = IF readinessChecks[name] = "r" THEN rwWaiting
                    ELSE rwWaiting \cup {CheckThread(p)}
    /\ UNCHANGED <<ready, readinessChecks, rwReaders, rwWriter>>
    /\ UNCHANGED <<regPc, regArg, lastReg, irPc, irResult, irSeen>>
    /\ UNCHANGED <<rebalanceVars, appVars, loopVars, procVars, liveVars>>

\* the lock call made by the check of handler thread p can return
ReentrantMayReturn(p) ==
    IF readinessChecks[probes[p].cur] = "r" THEN CanRLock ELSE CanLock

\* the method called by the check takes the lock, does its work and unlocks;
\* the check returns nil to the range loop
ProbeCheckReturn(p) ==
    /\ probes[p].pc = "inCheck"
    /\ ReentrantMayReturn(p)
    /\ LET name == probes[p].cur
           fn == readinessChecks[name]
       IN  /\ probes' = [probes EXCEPT ![p].pc = "checks", ![p].cur = 0,
                                       ![p].calls[name] = "nil"]
           /\ rwWaiting' = rwWaiting \ {CheckThread(p)}
           /\ ready' = IF fn = "w" THEN TRUE ELSE ready
           /\ lastSet' = IF fn = "w" THEN TRUE ELSE lastSet
           /\ readinessChecks' = IF fn = "a" THEN StoreCheck(readinessChecks, name, "f")
                                 ELSE readinessChecks
           /\ lastReg' = IF fn = "a" THEN [lastReg EXCEPT ![name] = "f"] ELSE lastReg
    /\ UNCHANGED <<rwReaders, rwWriter>>
    /\ UNCHANGED <<regPc, regArg, irPc, irResult, irSeen>>
    /\ UNCHANGED <<cbPc, cbArg, cbEvent, lastEvent, owned>>
    /\ UNCHANGED <<appVars, loopVars, procVars, liveVars>>

\* ReadinessProbe: the range loop is over: w.WriteHeader(200); w.Write("ok")
ProbeOk(p) ==
    /\ probes[p].pc = "checks"
    /\ \A n \in Registered : probes[p].calls[n] # "none"
    /\ probes' = [probes EXCEPT ![p].pc = "done", ![p].code = 200, ![p].body = "ok"]
    /\ rwReaders' = RUnlock(rwReaders, ProbeThread(p))
    /\ UNCHANGED <<ready, readinessChecks, rwWriter, rwWaiting>>
    /\ UNCHANGED <<regPc, regArg, lastReg, irPc, irResult, irSeen>>
    /\ UNCHANGED <<rebalanceVars, appVars, loopVars, procVars, liveVars>>

\* ---------------------------------- health.Checker.LivenessProbe

\* the request of the /live handler thread; behindWriter records whether, when
\* the response was written, a thread held Checker.mu for writing or waited in Lock()
IdleLive == [pc |-> "idle", code |-> 0, body |-> "", behindWriter |-> FALSE]

\* (mutant) the handler takes the read lock as ReadinessProbe does
LivenessMayRespondRLock == CanRLock

\* LivenessProbe uses neither c.mu nor any field of the Checker
LivenessMayRespond == TRUE

\* a GET /live request arrives at the handler thread
LivenessRequest ==
    /\ live.pc \in {"idle", "done"}
    /\ live' = [IdleLive EXCEPT !.pc = "handling"]
    /\ UNCHANGED <<appVars, loopVars, healthVars, procVars>>

\* LivenessProbe: w.WriteHeader(http.StatusOK); w.Write([]byte("ok"))
LivenessProbe ==
    /\ live.pc = "handling"
    /\ LivenessMayRespond
    /\ live' = [pc |-> "done", code |-> 200, body |-> "ok",
                behindWriter |-> (rwWriter # NoThread \/ rwWaiting # {})]
    /\ UNCHANGED <<appVars, loopVars, healthVars, procVars>>

\* ---------------------------------- processor.InstrumentingProcessor

IpCalls == 1..NumCalls
Topics == {"orders", "payments"}

\* One call of InstrumentingProcessor.ProcessRecord: err is the named result
\* (nil until the return statement assigns it), innerRes the way the inner
\* ProcessRecord ended, ret what the caller gets, counter and histogram the
\* attribute sets this call recorded with.
NoCall ==
    [pc |-> "idle", topic |-> "none", innerCalls |-> 0, innerRes |-> "none",
     err |-> "nil", ret |-> "none", spanName |-> "none", spanStarts |-> 0,
     spanEnds |-> 0, spanTopic |-> "none", counter |-> <<>>, histogram |-> <<>>]

SpanName(topic) == <<topic, "process">>

NamedResultNil(res) == "nil"

\* return p.processor.ProcessRecord(ctx, record): the result is stored in err
NamedResult(res) == res

SuccessAlways(err) == TRUE

\* the success argument of InstrumentMessage: err == nil
Success(err) == err = "nil"

MetricAttrs(topic, success) == [topic |-> topic, success |-> success]

\* tracer.Start and the registration of the two deferred calls
IpBegin(c, topic) ==
    /\ ipCalls[c].pc = "idle"
    /\ ipCalls' = [ipCalls EXCEPT ![c].pc = "started", ![c].topic = topic,
                                  ![c].spanName = SpanName(topic),
                                  ![c].spanStarts = @ + 1]
    /\ UNCHANGED <<appVars, loopVars, healthVars, liveVars>>

\* the call p.processor.ProcessRecord(ctx, record) begins
IpInnerCall(c) ==
    /\ ipCalls[c].pc = "started"
    /\ ipCalls' = [ipCalls EXCEPT ![c].pc = "inner", ![c].innerCalls = @ + 1]
    /\ UNCHANGED <<appVars, loopVars, healthVars, liveVars>>

\* the inner call returns nil or an error, which the return statement assigns
\* to err, or it panics, which leaves err as it was
IpInnerReturn(c, res) ==
    /\ ipCalls[c].pc = "inner"
    /\ ipCalls' = [ipCalls EXCEPT
           ![c].pc = "deferred", ![c].innerRes = res,
           ![c].err = IF res = "panic" THEN @ ELSE NamedResult(res)]
    /\ UNCHANGED <<appVars, loopVars, healthVars, liveVars>>

\* the deferred closure: InstrumentMessage(ctx, record, err == nil, startTime)
IpInstrument(c) ==
    /\ ipCalls[c].pc = "deferred"
    /\ LET attrs == MetricAttrs(ipCalls[c].topic, Success(ipCalls[c].err))
       IN ipCalls' = [ipCalls EXCEPT
              ![c].pc = "spanEnd",
              ![c].counter = Append(@, attrs),
              ![c].histogram = Append(@, attrs),
              ![c].spanTopic = ipCalls[c].topic]
    /\ UNCHANGED <<appVars, loopVars, healthVars, liveVars>>

\* the deferred span.End(), then the call returns err or the panic goes on
IpSpanEnd(c) ==
    /\ ipCalls[c].pc = "spanEnd"
    /\ ipCalls' = [ipCalls EXCEPT
           ![c].pc = "done", ![c].spanEnds = @ + 1,
           ![c].ret = IF ipCalls[c].innerRes = "panic" THEN "panic"
                      ELSE ipCalls[c].err]
    /\ UNCHANGED <<appVars, loopVars, healthVars, liveVars>>

InitProc == ipCalls = [c \in IpCalls |-> NoCall]


\* ------------------------------------------------------------ specification

InitHealth ==
    /\ ready = FALSE
    /\ readinessChecks = [n \in CheckNames |-> "none"]
    /\ rwReaders = {}
    /\ rwWriter = NoThread
    /\ rwWaiting = {}
    /\ probes = [p \in Probes |-> IdleProbe]
    /\ regPc = "idle"
    /\ regArg = NoArg
    /\ irPc = "idle"
    /\ irResult = FALSE
    /\ irSeen = NoEvent
    /\ lastReg = [n \in CheckNames |-> "none"]
    /\ cbPc = "idle"
    /\ cbArg = FALSE
    /\ cbEvent = NoEvent
    /\ lastEvent = NoEvent
    /\ owned = {}
    /\ lastSet = FALSE

InitApp ==
    /\ appPc = "init"
    /\ cancelled = FALSE
    /\ appWg = 0
    /\ srvGo = "none"
    /\ shutdownCalled = FALSE
    /\ closeCalls = 0
    /\ cleanupIdx = 0
    /\ cleanupLog = <<>>
    /\ shutdownRes = NoShutdown
    /\ runPc = "notStarted"
    /\ fetches = [errs |-> 0, recs |-> 0]
    /\ nextRec = 1
    /\ batchWg = 0
    /\ tasks = [r \in Records |-> NoTask]
    /\ invoked = [r \in Records |-> 0]
    /\ pollsAfterCancel = 0

InitLive == live = IdleLive

Init == InitApp /\ InitHealth /\ InitProc /\ InitLive

Next ==
    \/ StartHealthCheckServer
    \/ \E ok \in BOOLEAN : StartConsumer(ok)
    \/ Signal
    \/ \E res \in {"ok", "err"} : ShutdownHTTPServer(res)
    \/ \E tres, mres \in {"ok", "err", "nil"} : ShutdownOtelProviders(tres, mres)
    \/ CloseClient
    \/ Cleanup
    \/ WaitGoroutines
    \/ SrvListen
    \/ SrvFail
    \/ SrvExit
    \/ LoopCheck
    \/ PollBegin
    \/ \E e \in 0..MaxErrs, n \in 0..MaxRecs : PollReturn(e, n)
    \/ HandleFetches
    \/ Spawn
    \/ DispatchDone
    \/ BatchWait
    \/ \E r \in Records : TaskStart(r)
    \/ \E r \in Records, res \in {"nil", "err", "cancelled"} : TaskReturn(r, res)
    \/ \E r \in Records : TaskDone(r)
    \/ LoopExit

Spec == Init /\ [][Next]_vars

\* a step of the goroutine that runs app.Start
StartStep ==
    \/ StartHealthCheckServer
    \/ \E ok \in BOOLEAN : StartConsumer(ok)
    \/ \E res \in {"ok", "err"} : ShutdownHTTPServer(res)
    \/ \E tres, mres \in {"ok", "err", "nil"} : ShutdownOtelProviders(tres, mres)
    \/ CloseClient
    \/ Cleanup
    \/ WaitGoroutines

\* a step of the goroutine that runs Consumer.Run
RunStep ==
    \/ LoopCheck
    \/ PollBegin
    \/ \E e \in 0..MaxErrs, n \in 0..MaxRecs : PollReturn(e, n)
    \/ HandleFetches
    \/ Spawn
    \/ DispatchDone
    \/ BatchWait
    \/ LoopExit

\* a step of the goroutine that processes record r
TaskStep(r) ==
    \/ TaskStart(r)
    \/ \E res \in {"nil", "err", "cancelled"} : TaskReturn(r, res)
    \/ TaskDone(r)

\* Spec with the scheduling the Go runtime gives: every goroutine that can take
\* a step eventually takes it, and every PollFetches call and every Processor
\* invocation eventually returns. The signal and a failure of ListenAndServe
\* may or may not happen.
Fairness ==
    /\ WF_vars(StartStep)
    /\ WF_vars(SrvExit)
    /\ WF_vars(RunStep)
    /\ \A r \in Records : WF_vars(TaskStep(r))

\* Next with both providers' Shutdown ending alike (Spec has every combination)
NextLive ==
    \/ StartHealthCheckServer
    \/ \E ok \in BOOLEAN : StartConsumer(ok)
    \/ Signal
    \/ \E res \in {"ok", "err"} : ShutdownHTTPServer(res)
    \/ \E res \in {"ok", "err"} : ShutdownOtelProviders(res, res)
    \/ CloseClient
    \/ Cleanup
    \/ WaitGoroutines
    \/ SrvListen
    \/ SrvFail
    \/ SrvExit
    \/ RunStep
    \/ \E r \in Records : TaskStep(r)

SpecLive == Init /\ [][NextLive]_vars /\ Fairness

\* the rebalance callbacks, SetReady and a concurrent IsReady
NextRebalance ==
    \/ \E kind \in {"assign", "revoke", "lost"}, parts \in SUBSET Partitions :
          Rebalance(kind, parts)
    \/ SetReadyLock
    \/ SetReadyWrite
    \/ IsReadyRLock
    \/ IsReadyReturn

SpecRebalance == Init /\ [][NextRebalance]_vars

\* the probe handlers with concurrent SetReady and AddReadinessCheck calls
NextHealth ==
    \/ \E v \in BOOLEAN : SetReadyCall(v)
    \/ SetReadyLock
    \/ SetReadyWrite
    \/ \E name \in CheckNames, check \in Fns : AddReadinessCheckCall(name, check)
    \/ AddReadinessCheckLock
    \/ AddReadinessCheckWrite
    \/ \E p \in Probes : ProbeRLock(p)
    \/ \E p \in Probes : ProbeReadyFlag(p)
    \/ \E p \in Probes, name \in CheckNames, res \in {"nil", "err"} : ProbeCheck(p, name, res)
    \/ \E p \in Probes : ProbeOk(p)

SpecHealth == Init /\ [][NextHealth]_vars

\* SetReady, AddReadinessCheck, IsReady and ReadinessProbe all running at once;
\* the checks that are registered here succeed, so that a probe holds the read
\* lock through its whole loop
NextLock ==
    \/ \E v \in BOOLEAN : SetReadyCall(v)
    \/ SetReadyLock
    \/ SetReadyWrite
    \/ \E name \in CheckNames : AddReadinessCheckCall(name, "f")
    \/ AddReadinessCheckLock
    \/ AddReadinessCheckWrite
    \/ IsReadyRLock
    \/ IsReadyReturn
    \/ \E p \in Probes : ProbeRLock(p)
    \/ \E p \in Probes : ProbeReadyFlag(p)
    \/ \E p \in Probes, name \in CheckNames, res \in {"nil", "err"} : ProbeCheck(p, name, res)
    \/ \E p \in Probes : ProbeOk(p)

SpecLock == Init /\ [][NextLock]_vars

\* /live requests while SetReady and AddReadinessCheck write and IsReady reads
NextLiveness ==
    \/ LivenessRequest
    \/ LivenessProbe
    \/ \E v \in BOOLEAN : SetReadyCall(v)
    \/ SetReadyLock
    \/ SetReadyWrite
    \/ \E name \in CheckNames, check \in Fns : AddReadinessCheckCall(name, check)
    \/ AddReadinessCheckLock
    \/ AddReadinessCheckWrite
    \/ IsReadyRLock
    \/ IsReadyReturn

SpecLiveness == Init /\ [][NextLiveness]_vars

\* probes and writers where the check registered under the first name may be
\* any function, the ones that call back into the Checker included
NextReentrant ==
    \/ \E v \in BOOLEAN : SetReadyCall(v)
    \/ SetReadyLock
    \/ SetReadyWrite
    \/ \E check \in Fns \cup ReFns : AddReadinessCheckCall(1, check)
    \/ AddReadinessCheckLock
    \/ AddReadinessCheckWrite
    \/ \E p \in Probes : ProbeRLock(p)
    \/ \E p \in Probes : ProbeReadyFlag(p)
    \/ \E p \in Probes, name \in CheckNames, res \in {"nil", "err"} : ProbeCheck(p, name, res)
    \/ \E p \in Probes, name \in CheckNames : ProbeCheckCall(p, name)
    \/ \E p \in Probes : ProbeCheckReturn(p)
    \/ \E p \in Probes : ProbeOk(p)

\* every thread that can take a step eventually takes it; a thread blocked in
\* Lock() gets the lock if it is free again and again (the mutex that
\* serializes the writers hands over to a starving waiter); requests and calls
\* may or may not arrive
FairnessReentrant ==
    /\ SF_vars(SetReadyLock)
    /\ WF_vars(SetReadyWrite)
    /\ SF_vars(AddReadinessCheckLock)
    /\ WF_vars(AddReadinessCheckWrite)
    /\ \A p \in Probes :
          WF_vars(\/ ProbeReadyFlag(p)
                  \/ \E name \in CheckNames, res \in {"nil", "err"} : ProbeCheck(p, name, res)
                  \/ \E name \in CheckNames : ProbeCheckCall(p, name)
                  \/ ProbeCheckReturn(p)
                  \/ ProbeOk(p))

SpecReentrant == Init /\ [][NextReentrant]_vars /\ FairnessReentrant

\* Concurrent calls of InstrumentingProcessor.ProcessRecord.
NextProc ==
    \/ \E c \in IpCalls, topic \in Topics : IpBegin(c, topic)
    \/ \E c \in IpCalls : IpInnerCall(c)
    \/ \E c \in IpCalls, res \in {"nil", "err", "panic"} : IpInnerReturn(c, res)
    \/ \E c \in IpCalls : IpInstrument(c)
    \/ \E c \in IpCalls : IpSpanEnd(c)

SpecProc == Init /\ [][NextProc]_vars

\* ------------------------------------------------------------------ claims

\* Run has returned
Stopped == runPc \in {"stopped", "exited"}

\* some goroutine of the current batch has been started and has not finished
TaskInFlight == \E r \in Records : tasks[r].st \in {"spawned", "running", "returned"}

\* the loop is past the join of the batch in `fetches`
PastJoin == runPc \in {"check", "poll", "inPoll", "stopped", "exited"}

\* C1: whenever KafkaClient.Close has been called, the poll loop goroutine has
\* returned and no per-record task is still running.
C1_CloseOnlyAfterJoin == closeCalls > 0 => (Stopped /\ ~TaskInFlight)

\* C2: whenever Run is about to call, or is inside, PollFetches, no record task
\* is started but unfinished.
C2_NoTaskAtPoll == runPc \in {"poll", "inPoll"} => ~TaskInFlight

C2_Witness ==
    /\ runPc = "inPoll"
    /\ fetches = [errs |-> 0, recs |-> MaxRecs]
    /\ \A r \in Records : tasks[r].st = "done"

\* C3 (as claimed): no PollFetches call begins while the context is cancelled.
C3_NoPollAfterCancel == pollsAfterCancel = 0

\* C3 (amended): at most one PollFetches call begins after the cancellation, the
\* one whose iteration checked the context before the cancellation fired.
C3_AtMostOnePollAfterCancel == pollsAfterCancel <= 1

C3_Witness == pollsAfterCancel = 1 /\ Stopped

\* C4: once the loop is past the join of a batch without fetch errors, every
\* record of the batch has had exactly one ProcessRecord invocation, which has
\* returned (nil or an error); no record is ever invoked twice.
C4_ExactlyOncePerRecord ==
    /\ \A r \in Records : invoked[r] <= 1
    /\ (PastJoin /\ fetches.errs = 0) =>
          \A r \in Records :
             IF r <= fetches.recs
               THEN invoked[r] = 1 /\ tasks[r].st = "done" /\ tasks[r].res \in {"nil", "err"}
               ELSE invoked[r] = 0 /\ tasks[r] = NoTask

C4_Witness ==
    /\ runPc = "check"
    /\ fetches = [errs |-> 0, recs |-> MaxRecs]
    /\ tasks[1].res = "err"
    /\ tasks[MaxRecs].res = "nil"

\* C5: a batch with a fetch-level error is never dispatched: no goroutine is
\* spawned and ProcessRecord is not invoked for any of its records, and the loop
\* goes from the error branch to the next iteration.
C5_NoDispatchOnFetchError ==
    fetches.errs > 0 =>
       /\ runPc \notin {"dispatch", "wait"}
       /\ \A r \in Records : invoked[r] = 0 /\ tasks[r] = NoTask

C5_Witness == runPc = "poll" /\ fetches.errs > 0 /\ fetches.recs > 0

\* C9: Run is Stopped only when the context is cancelled; from the error branch
\* and from the join the loop goes to the next iteration's check, and a check
\* that finds the context alive goes on to poll.
C9_OnlyCancellationStops ==
    /\ [](Stopped => cancelled)
    /\ [][/\ (runPc = "handle" /\ fetches.errs > 0 /\ runPc' # runPc) => runPc' = "check"
          /\ (runPc = "wait" /\ runPc' # runPc) => runPc' = "check"
          /\ (runPc = "check" /\ ~cancelled /\ runPc' # runPc) => runPc' = "poll"]_vars

C9_Witness == runPc = "inPoll" /\ ~cancelled /\ fetches.errs > 0

\* C10: KafkaClient.Close is called at most once and, once it has been called,
\* no PollFetches call is in progress.
C10_NoPollOnceClosed == closeCalls <= 1 /\ (closeCalls > 0 => runPc # "inPoll")

\* a rebalance event of the kinds the readiness contract is stated for
ClaimedEvent(e) == e.kind \in {"revoke", "lost"} \/ (e.kind = "assign" /\ e.parts # {})

\* C6: readiness is true only when the most recent rebalance event (the last
\* one whose callback has returned) is an assignment with a non-empty partition
\* map; this holds of the flag whenever no callback is running and of every
\* value IsReady returns.
C6_ReadyOnlyAfterNonEmptyAssign ==
    /\ (cbPc = "idle" /\ ready) => (lastEvent.kind = "assign" /\ lastEvent.parts # {})
    /\ (irPc = "done" /\ irResult) => (irSeen.kind = "assign" /\ irSeen.parts # {})

\* C7: after any sequence of rebalance events, when the last one is
\* assign(non-empty), revoke or lost, readiness is true exactly if it is the
\* assignment, both in the flag (no callback running) and in what IsReady returns.
C7_LastEventDecides ==
    /\ (cbPc = "idle" /\ ClaimedEvent(lastEvent)) => (ready <=> lastEvent.kind = "assign")
    /\ (irPc = "done" /\ ClaimedEvent(irSeen)) => (irResult <=> irSeen.kind = "assign")

\* a partial revoke: partitions remain owned, a callback earlier made ready true
C7_Witness ==
    /\ cbPc = "idle"
    /\ lastEvent.kind = "revoke" /\ lastEvent.parts # {}
    /\ owned # {}
    /\ irPc = "done" /\ irSeen = lastEvent /\ irResult = FALSE

\* C8: a finished readiness probe answered 503 exactly if the flag was false
\* when it took the read lock or one of the checks it called returned an error;
\* otherwise it answered 200 "ok", having called every registered check.
C8_ProbeStatus ==
    \A p \in Probes :
       probes[p].pc = "done" =>
          LET pr == probes[p]
              failed == \E n \in CheckNames : pr.calls[n] = "err"
          IN  /\ pr.code \in {200, 503}
              /\ pr.code = 503 <=> (~pr.readyAtLock \/ failed)
              /\ pr.code = 200 =>
                   /\ pr.body = "ok"
                   /\ \A n \in pr.namesAtLock : pr.calls[n] = "nil"

C8_Witness ==
    \E p \in Probes :
       /\ probes[p].pc = "done"
       /\ probes[p].code = 503
       /\ probes[p].readyAtLock
       /\ \E n, m \in CheckNames : probes[p].calls[n] = "nil" /\ probes[p].calls[m] = "err"

\* ProcessRecord is running for some record
TaskRunning == \E r \in Records : tasks[r].st = "running"

\* shutdownOtelProviders has run
OtelShutDown == shutdownRes.tracer # "none"

\* C11: the telemetry providers are shut down only after the client has been
\* closed, the cleanup callbacks run only after the telemetry shutdown, and no
\* Processor invocation is running once either of them has started.
C11_LaterShutdownOrder ==
    /\ OtelShutDown => closeCalls > 0
    /\ cleanupIdx > 0 => OtelShutDown
    /\ (OtelShutDown \/ cleanupIdx > 0) => ~TaskRunning

\* C12: a started record task only moves forward (spawned, running, returned,
\* done) whatever the context does, no Processor gives up because the loop's
\* context was cancelled, and Run is Stopped, and Start has returned, only with
\* no task in flight.
C12_TasksRunToCompletion ==
    /\ []((Stopped \/ appPc = "returned") => ~TaskInFlight)
    /\ [](\A r \in Records : tasks[r].res # "cancelled")
    /\ [][\A r \in Records :
            /\ tasks[r].st = "spawned" => tasks'[r].st \in {"spawned", "running"}
            /\ tasks[r].st = "running" => tasks'[r].st \in {"running", "returned"}
            /\ tasks[r].st = "returned" => tasks'[r].st \in {"returned", "done"}]_vars

C12_Witness == cancelled /\ runPc = "wait" /\ tasks[1].st = "running" /\ closeCalls > 0

\* a task of the current batch returned an error
TaskFailed == \E r \in Records : tasks[r].res = "err"

\* C13: when a task of a batch returned an error, no record of the batch is
\* invoked twice, past the join every record of the batch has been invoked
\* once and has finished, the loop is not Stopped unless cancelled, and from
\* the join the loop goes to the next check and from there, if not cancelled,
\* to the next poll.
C13_TaskErrorIsolated ==
    /\ [](TaskFailed => \A r \in Records : invoked[r] <= 1)
    /\ []((TaskFailed /\ PastJoin) =>
            \A r \in 1..fetches.recs : invoked[r] = 1 /\ tasks[r].st = "done")
    /\ []((TaskFailed /\ Stopped) => cancelled)
    /\ [][TaskFailed =>
            /\ (runPc = "wait" /\ runPc' # runPc) => runPc' = "check"
            /\ (runPc = "check" /\ ~cancelled /\ runPc' # runPc) => runPc' = "poll"]_vars

C13_Witness ==
    /\ runPc = "inPoll" /\ ~cancelled
    /\ fetches = [errs |-> 0, recs |-> MaxRecs]
    /\ tasks[1] = [st |-> "done", res |-> "err"]
    /\ tasks[MaxRecs] = [st |-> "done", res |-> "nil"]

\* Start has returned nil with everything stopped and every step done once
CleanlyStopped ==
    /\ runPc = "exited"
    /\ ~TaskInFlight
    /\ srvGo = "exited"
    /\ appWg = 0
    /\ closeCalls = 1
    /\ cleanupIdx = NumCleanup
    /\ \A k \in {"http", "tracer", "meter"} : shutdownRes[k] # "none"

C17_ShutdownErrorsNonFatal ==
    /\ shutdownRes.http # "none" => appPc # "failed"
    /\ appPc = "returned" =>
         /\ closeCalls = 1
         /\ cleanupIdx = NumCleanup
         /\ appWg = 0

C17_Witness ==
    /\ appPc = "returned"
    /\ shutdownRes = [http |-> "err", tracer |-> "err", meter |-> "err"]

\* C18: when Start returns an error from startConsumer, the probe server has
\* not been started and no poll has been issued.
C18_InitErrorStartsNothing ==
    appPc = "failed" => (srvGo = "none" /\ runPc = "notStarted")

\* ---------------------------------------------------------------- C14

IpReturned(c) == ipCalls[c].pc = "done" /\ ipCalls[c].innerRes \in {"nil", "err"}

\* C14: every call of InstrumentingProcessor.ProcessRecord invokes the inner
\* Processor exactly once (never more at any moment, exactly once from the
\* call statement on), and the value the caller gets is the inner Processor's
\* own result: nil for nil, the error for an error (and a panic stays a panic).
C14_InnerOnceResultForwarded ==
    \A c \in IpCalls :
        /\ ipCalls[c].innerCalls <= 1
        /\ ipCalls[c].pc \in {"inner", "deferred", "spanEnd", "done"}
               => ipCalls[c].innerCalls = 1
        /\ ipCalls[c].pc = "done" => ipCalls[c].ret = ipCalls[c].innerRes

C14_Witness ==
    \E c, d \in IpCalls :
        /\ IpReturned(c) /\ ipCalls[c].ret = "err"
        /\ IpReturned(d) /\ ipCalls[d].ret = "nil"

\* ---------------------------------------------------------------- C15

IpRecorded(c) ==
    \/ ipCalls'[c].spanEnds # ipCalls[c].spanEnds
    \/ ipCalls'[c].counter # ipCalls[c].counter
    \/ ipCalls'[c].histogram # ipCalls[c].histogram

\* C15: a finished call has started one span and ended one, and has recorded
\* one counter increment and one duration observation; whenever the inner
\* Processor returned, both carry the record's topic and success = (the
\* inner result was nil); no call ever records more than one of each, and
\* every recording and the end of the span happen after the inner call ended.
C15_OneSpanOneCounterOneDuration ==
    /\ [](\A c \in IpCalls :
            /\ ipCalls[c].spanStarts <= 1 /\ ipCalls[c].spanEnds <= 1
            /\ Len(ipCalls[c].counter) <= 1 /\ Len(ipCalls[c].histogram) <= 1
            /\ ipCalls[c].pc = "done" =>
                   /\ ipCalls[c].spanStarts = 1 /\ ipCalls[c].spanEnds = 1
                   /\ Len(ipCalls[c].counter) = 1
                   /\ Len(ipCalls[c].histogram) = 1
            /\ IpReturned(c) =>
                   /\ ipCalls[c].counter =
                          <<MetricAttrs(ipCalls[c].topic, ipCalls[c].innerRes = "nil")>>
                   /\ ipCalls[c].histogram = ipCalls[c].counter
                   /\ ipCalls[c].spanName = SpanName(ipCalls[c].topic))
    /\ [][\A c \in IpCalls : IpRecorded(c) => ipCalls[c].innerRes # "none"]_vars

C15_Witness ==
    \E c, d \in IpCalls :
        /\ IpReturned(c) /\ ipCalls[c].counter = <<MetricAttrs("orders", FALSE)>>
        /\ IpReturned(d) /\ ipCalls[d].histogram = <<MetricAttrs("payments", TRUE)>>

\* ---------------------------------------------------------------- C19

CbHolds == cbPc = "locked"
RegHolds == regPc = "locked"
IrHolds == irPc = "rlocked"
ProbeHolds(p) == probes[p].pc \in {"rlocked", "checks"}

\* C19: between c.mu.Lock() and Unlock() a writer (SetReady or
\* AddReadinessCheck) is alone: no other writer and no reader (IsReady or
\* ReadinessProbe) is between its RLock() and RUnlock(); and the value IsReady
\* returns, and the flag on which a probe decides between the 503 "not ready"
\* response and going on to the checks, is the argument of the latest SetReady
\* that took the lock (false when there was none).
C19_LockLinearizesReadiness ==
    /\ [](/\ ~(CbHolds /\ RegHolds)
          /\ (CbHolds \/ RegHolds) => ~IrHolds /\ \A p \in Probes : ~ProbeHolds(p)
          /\ (IrHolds \/ \E p \in Probes : ProbeHolds(p)) => ready = lastSet)
    /\ [][IrHolds /\ irPc' = "done" => irResult' = lastSet]_vars
    /\ [][\A p \in Probes :
            probes[p].pc = "rlocked" /\ probes'[p].pc # "rlocked" =>
                /\ (probes'[p].pc = "checks") = lastSet
                /\ (probes'[p].code = 503 /\ probes'[p].body = NotReadyBody) = ~lastSet]_vars

C19_Witness ==
    /\ cbPc = "lock" /\ regPc = "lock"
    /\ irPc = "done" /\ irResult
    /\ \E p \in Probes : probes[p].pc = "checks" /\ rwReaders = {ProbeThread(p)}

\* ---------------------------------------------------------------- C20

\* C20: the map holds for every name the check of the latest AddReadinessCheck
\* with that name (none when there was no such call); a call writes its own
\* name and leaves every other name as it was; and a check that a probe
\* evaluates for a name returns what the latest check registered for that
\* name returns.
C20_LastRegistrationWins ==
    /\ [](readinessChecks = lastReg)
    /\ [][RegHolds /\ regPc' = "idle" =>
            /\ readinessChecks'[regArg.name] = regArg.check
            /\ \A n \in CheckNames \ {regArg.name} :
                   readinessChecks'[n] = readinessChecks[n]]_vars
    /\ [][\A p \in Probes, n \in CheckNames :
            probes[p].pc = "checks" /\ probes[p].calls[n] = "none"
            /\ probes'[p].calls[n] # "none" =>
                probes'[p].calls[n] = CheckResult(lastReg[n])]_vars

\* a probe saw the check f of a name that has been registered again with g
\* since, while another name kept its check
C20_Witness ==
    \E p \in Probes, n, m \in CheckNames :
        /\ n # m /\ regPc = "idle"
        /\ probes[p].pc = "done" /\ probes[p].calls[n] = "nil"
        /\ probes[p].calls[m] = "nil"
        /\ readinessChecks[n] = "g" /\ readinessChecks[m] = "f"

\* ---------------------------------------------------------------- C21

\* C21: the cleanup callbacks that have been called are, in call order, the
\* first registered ones in registration order, none of them twice; they are
\* called only in the shutdown that follows the cancellation, and when Start
\* has returned nil every registered callback has been called exactly once.
C21_CleanupInRegistrationOrder ==
    /\ Len(cleanupLog) <= NumCleanup
    /\ cleanupLog = [i \in 1..Len(cleanupLog) |-> CleanupFns[i]]
    /\ cleanupLog # <<>> => cancelled /\ appPc \in {"cleanup", "wgWait", "returned"}
    /\ appPc = "returned" => cleanupLog = CleanupFns

C21_Witness ==
    /\ appPc = "returned"
    /\ Len(cleanupLog) >= 2

\* ---------------------------------------------------------------- C22

\* C22: every response of the liveness probe is 200 with the body "ok",
\* whatever the readiness flag and the registered checks are, and a request
\* that is being handled can always be answered at once: the handler never
\* waits, not even while a writer holds Checker.mu or waits for it.
C22_LivenessAlwaysOk ==
    /\ live.pc = "done" => live.code = 200 /\ live.body = "ok"
    /\ live.pc = "handling" => ENABLED LivenessProbe

\* a response written while SetReady held the lock with AddReadinessCheck
\* waiting behind it, not ready, a failing check registered
C22_Witness ==
    /\ live.pc = "done" /\ live.behindWriter
    /\ cbPc = "locked" /\ regPc = "lock"
    /\ ~ready /\ \E n \in CheckNames : readinessChecks[n] = "g"

\* ---------------------------------------------------------------- C23

\* C23: however a call ends (the inner Processor returns nil, returns an
\* error or panics) the span has been ended and one counter increment and one
\* duration observation have been recorded, and success = true is recorded
\* only when the inner Processor returned nil.
C23_InstrumentedOnEveryExit ==
    \A c \in IpCalls :
        ipCalls[c].pc = "done" =>
            /\ ipCalls[c].spanEnds = 1
            /\ Len(ipCalls[c].counter) = 1
            /\ Len(ipCalls[c].histogram) = 1
            /\ \A i \in 1..Len(ipCalls[c].counter) :
                   ipCalls[c].counter[i].success => ipCalls[c].innerRes = "nil"
            /\ \A i \in 1..Len(ipCalls[c].histogram) :
                   ipCalls[c].histogram[i].success => ipCalls[c].innerRes = "nil"

\* ---------------------------------------------------------------- C24

\* C24: a probe that found the flag false answers 503 with the "no partitions
\* assigned" body and calls no check, and no probe calls a check before it
\* has seen the flag true; a probe that found the flag true and answers 503
\* names in its body one check that it called and that returned an error,
\* never a check that passed or that it did not call.
C24_FailureNamesTrueCause ==
    \A p \in Probes :
       LET pr == probes[p]
       IN  /\ (\E n \in CheckNames : pr.calls[n] # "none") => pr.readyAtLock
           /\ (pr.pc = "done" /\ pr.code = 503 /\ ~pr.readyAtLock) =>
                 /\ pr.body = NotReadyBody
                 /\ pr.check = 0
           /\ (pr.pc = "done" /\ pr.code = 503 /\ pr.readyAtLock) =>
                 /\ pr.body = "is not ready"
                 /\ pr.check \in pr.namesAtLock
                 /\ pr.calls[pr.check] = "err"

\* two checks fail; the probe named the second and did not call the first
C24_Witness ==
    \E p \in Probes :
       /\ probes[p].pc = "done" /\ probes[p].code = 503 /\ probes[p].readyAtLock
       /\ probes[p].check = 2 /\ probes[p].calls[1] = "none"
       /\ probes[p].namesAtLock = {1, 2}
       /\ readinessChecks[1] = "g" /\ readinessChecks[2] = "g"

\* ---------------------------------------------------------------- C25

\* C25: the records of a batch are handed out in offset order (record 1 before
\* record 2), yet nothing orders their processing: a record whose goroutine
\* has been spawned can start its Processor invocation, and a running
\* invocation can complete, whatever the other records' goroutines have done;
\* so the later record may start, and complete, before the earlier does.
C25_NoOrderWithinBatch ==
    \A r \in Records :
        /\ (Alive /\ tasks[r].st = "spawned") => ENABLED TaskStart(r)
        /\ (Alive /\ tasks[r].st = "running") =>
               ENABLED (\E res \in {"nil", "err"} : TaskReturn(r, res))

\* record 2 has completed and record 1 of the same batch has not yet started
C25_Witness ==
    /\ fetches.recs >= 2
    /\ tasks[1].st = "spawned"
    /\ tasks[2].st = "done"
    /\ invoked[1] = 0 /\ invoked[2] = 1

\* ---------------------------------------------------------------- C26

\* a check that calls back into the Checker is registered
ReentrantRegistered == \E n \in CheckNames : readinessChecks[n] \in ReFns

====
